---- MODULE Spec2Model ----
(***************************************************************************)
(* A model of src/src/model.js: BaseModel, the convention layer over the   *)
(* Objection Model.  It covers the static tableName and relationMappings   *)
(* accessors (with their per-class cache slots, which JavaScript looks up  *)
(* along the class's prototype chain), the four relation declarations,     *)
(* the module resolver and the two timestamp hooks.                        *)
(*                                                                         *)
(* Text that the code inspects character by character (class names, id     *)
(* columns, module specifiers) is a sequence of one-character strings;     *)
(* text that the code only concatenates (table names, join columns,        *)
(* overrides) is a string.                                                 *)
(***************************************************************************)
EXTENDS Naturals, Sequences, FiniteSets, TLC

VARIABLES
    tableNameSlot,      \* class -> its own _tableName property
    relSlot,            \* class -> its own _relationMappings property
    heap,               \* object id -> the object's content (name -> entry)
    nextObj,            \* the next object id to allocate
    available,          \* the module paths that require() can load
    hookCalls,          \* class -> number of $relations() runs with this = class
    firstRead,          \* class -> what its first relationMappings read gave
    lastRead,           \* the last relationMappings read: its class, what it
                        \* returned, whether it threw, whether it ran the
                        \* hook, and the value last assigned to the class's
                        \* relationMappings before it (Never if none was)
    lastDecl,           \* the last declaration called from outside a hook
    explicitSet,        \* class -> the value last assigned to relationMappings
    tableSet,           \* class -> whether tableName was ever assigned
    resolved,           \* class -> the first value its tableName getter gave
    lastTable,          \* the last tableName read
    nDecls,             \* declarations called from outside a hook so far
    nSets,              \* assignments made so far
    timestamps,         \* class -> its own static timestamps property
    now,                \* the clock new Date() reads
    rec,                \* the record instance: its class and two fields
    lastHook            \* the last $beforeInsert / $beforeUpdate call

relVars == <<tableNameSlot, relSlot, heap, nextObj, available, hookCalls,
             firstRead, lastRead, lastDecl, explicitSet, tableSet, resolved,
             lastTable, nDecls, nSets>>
hookVars == <<timestamps, now, rec, lastHook>>
vars == <<relVars, hookVars>>

----------------------------------------------------------------------------
(* Bounds of the model.                                                    *)

MaxObjs == 3
MaxDecls == 1
MaxSets == 1
MaxTime == 3

----------------------------------------------------------------------------
(* JavaScript values the model needs besides strings and objects.          *)

Undef == "<undefined>"      \* undefined
Null == "<null>"            \* null
Absent == "<absent>"        \* an option the caller did not pass

\* JavaScript truthiness of the values a slot or an option can hold:
\* undefined, null and the empty string are falsy; a non-empty string,
\* an object (a heap id) and a class are truthy.
Truthy(v) == v \notin {Undef, Null, Absent, ""}

\* What a slot holds while the class has no own property of that name; an
\* own property that holds undefined is a property all the same and hides
\* the parent's.
NoProperty == "<no property>"

\* What the record of the last explicit assignment holds before any.
Never == "<never assigned>"

\* a || b
Or(a, b) == IF Truthy(a) THEN a ELSE b

----------------------------------------------------------------------------
(* Character-level text.                                                   *)

LowerChars == <<"a","b","c","d","e","f","g","h","i","j","k","l","m",
                "n","o","p","q","r","s","t","u","v","w","x","y","z">>
UpperChars == <<"A","B","C","D","E","F","G","H","I","J","K","L","M",
                "N","O","P","Q","R","S","T","U","V","W","X","Y","Z">>

IsLower(ch) == \E i \in 1..26 : LowerChars[i] = ch
IsUpper(ch) == \E i \in 1..26 : UpperChars[i] = ch
IsLetter(ch) == IsLower(ch) \/ IsUpper(ch)

ToUpperChar(ch) ==
    IF IsLower(ch) THEN UpperChars[CHOOSE i \in 1..26 : LowerChars[i] = ch] ELSE ch
ToLowerChar(ch) ==
    IF IsUpper(ch) THEN LowerChars[CHOOSE i \in 1..26 : UpperChars[i] = ch] ELSE ch

\* The string a character sequence spells.
RECURSIVE Str(_)
Str(s) == IF s = <<>> THEN "" ELSE s[1] \o Str(Tail(s))

\* _.upperFirst: the first character upper-cased, the rest as it is.
upperFirst(s) == IF s = <<>> THEN <<>> ELSE <<ToUpperChar(s[1])>> \o Tail(s)

\* _.startsWith(s, prefix) for a one-character prefix.
startsWith(s, ch) == Len(s) >= 1 /\ s[1] = ch

\* lodash's words() and camelCase() on printable ASCII text.  There the
\* word pattern (reUnicodeWord; asciiWords finds the same words on the text
\* it is used for) has these alternatives, tried in this order at the first
\* letter or digit not yet consumed:
\*   [A-Z]?[a-z]+ before a separator, an upper-case letter or the end;
\*   [A-Z]+ before a separator, an upper-case letter that a lower-case one
\*          follows, or the end;
\*   [A-Z]?[a-z]+ ;  [A-Z]+ ;
\*   an ordinal: digits ending in 1ST, 2ND, 3RD or (not 1, 2, 3)TH before
\*          anything but an upper-case letter or a digit, or the same in
\*          lower case before anything but a lower-case letter or a digit;
\*   a run of digits.
\* Every other character separates words.

Digits == <<"0","1","2","3","4","5","6","7","8","9">>
IsDigit(ch) == \E i \in 1..10 : Digits[i] = ch

\* The character at position i, "" past the end.
At(s, i) == IF i \in 1..Len(s) THEN s[i] ELSE ""

\* The last position of the longest run of lower-case letters, upper-case
\* letters, digits that starts at i (i - 1 when there is none).
RECURSIVE lowerRunEnd(_, _)
lowerRunEnd(s, i) == IF IsLower(At(s, i)) THEN lowerRunEnd(s, i + 1) ELSE i - 1
RECURSIVE upperRunEnd(_, _)
upperRunEnd(s, i) == IF IsUpper(At(s, i)) THEN upperRunEnd(s, i + 1) ELSE i - 1
RECURSIVE digitRunEnd(_, _)
digitRunEnd(s, i) == IF IsDigit(At(s, i)) THEN digitRunEnd(s, i + 1) ELSE i - 1

\* rsOrdLower / rsOrdUpper: d is the last digit of a digit run, suffix the
\* two characters after it and after the one after those; they spell an
\* ordinal, and what follows lets it end there.
isOrdinal(d, suffix, after) ==
    \/ /\ \/ d = "1" /\ suffix = <<"s", "t">>
          \/ d = "2" /\ suffix = <<"n", "d">>
          \/ d = "3" /\ suffix = <<"r", "d">>
          \/ d \notin {"1", "2", "3"} /\ suffix = <<"t", "h">>
       /\ ~IsLower(after) /\ ~IsDigit(after)
    \/ /\ \/ d = "1" /\ suffix = <<"S", "T">>
          \/ d = "2" /\ suffix = <<"N", "D">>
          \/ d = "3" /\ suffix = <<"R", "D">>
          \/ d \notin {"1", "2", "3"} /\ suffix = <<"T", "H">>
       /\ ~IsUpper(after) /\ ~IsDigit(after)

\* The last position of the word made of the digit run that ends at k: the
\* ordinal it ends in, else the run.
digitWordEnd(s, k) ==
    IF isOrdinal(At(s, k), <<At(s, k + 1), At(s, k + 2)>>, At(s, k + 3))
    THEN k + 2
    ELSE k

\* The last position of the word made of the upper-case run that ends at j:
\* its last letter starts the next word when a lower-case letter follows.
upperWordEnd(s, j) == IF IsLower(At(s, j + 1)) THEN j - 1 ELSE j

\* The last position of the word that starts at the letter or digit at i.
wordEnd(s, i) ==
    IF IsDigit(s[i]) THEN digitWordEnd(s, digitRunEnd(s, i))
    ELSE IF IsLower(s[i]) THEN lowerRunEnd(s, i)
    ELSE IF IsLower(At(s, i + 1)) THEN lowerRunEnd(s, i + 1)
    ELSE upperWordEnd(s, upperRunEnd(s, i))

\* words(s), from position i on; wordsAfter takes the word from i to j.
RECURSIVE wordsFrom(_, _)
wordsAfter(s, i, j) == <<SubSeq(s, i, j)>> \o wordsFrom(s, j + 1)
wordsFrom(s, i) ==
    IF i > Len(s) THEN <<>>
    ELSE IF ~(IsLetter(s[i]) \/ IsDigit(s[i])) THEN wordsFrom(s, i + 1)
    ELSE wordsAfter(s, i, wordEnd(s, i))

\* word.toLowerCase()
RECURSIVE toLower(_)
toLower(s) == IF s = <<>> THEN <<>> ELSE <<ToLowerChar(s[1])>> \o toLower(Tail(s))

\* string.replace(reApos, ''): camelCase drops apostrophes before it splits.
IsNotApostrophe(ch) == ch # "'"
withoutApostrophes(s) == SelectSeq(s, IsNotApostrophe)

\* The reduce of camelCase over the words w: each word lower-cased, every
\* word but the first with its first character upper-cased, joined without
\* separators.
RECURSIVE camelJoin(_, _)
camelJoin(w, first) ==
    IF w = <<>> THEN <<>>
    ELSE (IF first THEN toLower(w[1]) ELSE upperFirst(toLower(w[1])))
            \o camelJoin(Tail(w), FALSE)

\* _.camelCase
camelCase(s) == camelJoin(wordsFrom(withoutApostrophes(s), 1), TRUE)

\* plural() of ./utils, which is not part of the sources: the English plural
\* of a relation name, here the regular one.
plural(s) == s \o <<"s">>

----------------------------------------------------------------------------
(* The classes: BaseModel at the root, three models below it.  BaseModel   *)
(* is a class like the others: the accessors, the declarations and the     *)
(* timestamps switch can be used on it, and what they leave on it is what  *)
(* every class below it without a property of its own then sees.           *)

Root == "BaseModel"
Classes == {"Person", "Pet", "PetToy"}
AllClasses == Classes \cup {Root}

\* class X extends Y
Parent(c) == IF c = "PetToy" THEN "Pet" ELSE Root

\* Function.name of each class, as characters.
ClassName(c) ==
    CASE c = "Person" -> <<"P","e","r","s","o","n">>
      [] c = "Pet"    -> <<"P","e","t">>
      [] c = "PetToy" -> <<"P","e","t","T","o","y">>
      [] OTHER        -> <<"B","a","s","e","M","o","d","e","l">>

\* A static property read on a class: the class's own property if it has
\* one, else its parent's, up to BaseModel; above BaseModel (the Objection
\* Model) none of these properties is defined.
RECURSIVE Lookup(_, _)
Lookup(slot, c) ==
    IF slot[c] # NoProperty THEN slot[c]
    ELSE IF c = Root THEN Undef
    ELSE Lookup(slot, Parent(c))

\* Model.idColumn of Objection: "id" unless a class declares its own.
idColumn(c) == IF c = "PetToy" THEN <<"s","k","u">> ELSE <<"i","d">>

\* The texts the declarations build from a class, computed once per class:
\* this.name, _.camelCase(this.name), plural(_.camelCase(this.name)),
\* this.idColumn and _.camelCase(this.name) + _.upperFirst(this.idColumn).
nameOf == [c \in AllClasses |-> Str(ClassName(c))]
camelNameOf == [c \in AllClasses |-> Str(camelCase(ClassName(c)))]
pluralNameOf == [c \in AllClasses |-> Str(plural(camelCase(ClassName(c))))]
idColumnOf == [c \in AllClasses |-> Str(idColumn(c))]
foreignKeyOf ==
    [c \in AllClasses |-> Str(camelCase(ClassName(c)) \o upperFirst(idColumn(c)))]

\* this.constructor.timestamps: the class's own timestamps property if it
\* was assigned one, else the nearest one above it; BaseModel has its own
\* from the start (static timestamps = true).  A slot holds "true", "false"
\* or undefined, which is falsy.
timestampsOf(ts, c) == Lookup(ts, c) = "true"

----------------------------------------------------------------------------
(* The static state the accessors and declarations read and write, as one  *)
(* record: tn (the _tableName slots), rs (the _relationMappings slots),    *)
(* hp (the heap), res (the first table name each getter returned).         *)

\* static get tableName(): caches this._tableName || this.name on the class
\* itself and returns it.  The result is [S, val].
tableNameGet(S, c) ==
    LET v == Or(Lookup(S.tn, c), nameOf[c])
    IN  [S   |-> [S EXCEPT !.tn[c] = v,
                           !.res[c] = IF @ = Undef THEN v ELSE @],
         val |-> v]

\* static set tableName(table)
tableNameSet(S, c, table) == [S EXCEPT !.tn[c] = table]

----------------------------------------------------------------------------
(* The module resolver.                                                    *)

Cwd == "/app"
PersonModule == "/app/src/models/Person"
OwnerModule == "./Owner"
ModulePaths == {PersonModule, OwnerModule}
Installable == {OwnerModule}

\* What each module exports: a default export, or the class itself.
\* The strings by which callers name models, and the path require() is given
\* for each: the string itself when it starts with "." or "/", else the
\* file of that name under the models directory of the working directory.
PersonSpecifier == <<"P","e","r","s","o","n">>
OwnerSpecifier == <<".","/","O","w","n","e","r">>
Specifiers == {PersonSpecifier, OwnerSpecifier}
requirePath ==
    [s \in Specifiers |->
        IF startsWith(s, ".") \/ startsWith(s, "/")
        THEN Str(s)
        ELSE Cwd \o "/src/models/" \o Str(s)]

ModuleExports(path) ==
    IF path = PersonModule THEN [default |-> "Person", self |-> Undef]
    ELSE [default |-> Undef, self |-> "Person"]

\* How a caller names a model: a class, or a string.
NoModel == [kind |-> "none", cls |-> Undef, str |-> <<>>]
ClassArg(c) == [kind |-> "class", cls |-> c, str |-> <<>>]
StringArg(s) == [kind |-> "string", cls |-> Undef, str |-> s]

\* static _getModelClass(model): [ok, cls]; ok is FALSE when require() throws.
getModelClass(avail, model) ==
    IF model.kind # "string" THEN [ok |-> TRUE, cls |-> model.cls]
    ELSE LET path == requirePath[model.str]
         IN  IF path \in avail
             THEN [ok |-> TRUE,
                   cls |-> Or(ModuleExports(path).default, ModuleExports(path).self)]
             ELSE [ok |-> FALSE, cls |-> Undef]

----------------------------------------------------------------------------
(* The four declarations.  Each takes the static state, the available      *)
(* modules, the class it is called on (this), the model argument and the   *)
(* options, and gives [ok, S, name, throughTable]: ok is FALSE when the    *)
(* call throws, S is the static state it leaves (the table names its       *)
(* getters cached stay cached when it throws later).                       *)

\* An options.through the caller did not pass: {}.
EmptyThrough ==
    [model |-> NoModel, table |-> Absent, from |-> Absent, to |-> Absent,
     extra |-> Absent, filter |-> Absent]
NoOptions ==
    [name |-> Absent, joinFrom |-> Absent, joinTo |-> Absent, filter |-> Absent,
     through |-> EmptyThrough]

Thrown(S) == [ok |-> FALSE, S |-> S, name |-> Undef, throughTable |-> Undef]

\* a || null
OrNull(a) == IF Truthy(a) THEN a ELSE Null

\* this._relationMappings[name] = entry: a TypeError when the slot the class
\* sees is undefined or null, else a write into the object it sees, its own
\* or an inherited one.
storeMapping(S, c, name, entry, throughTable) ==
    LET obj == Lookup(S.rs, c)
    IN  IF ~Truthy(obj) THEN Thrown(S)
        ELSE [ok |-> TRUE,
              S  |-> [S EXCEPT !.hp[obj] =
                        [n \in (DOMAIN @) \cup {name} |->
                            IF n = name THEN entry ELSE @[n]]],
              name |-> name,
              throughTable |-> throughTable]

\* `${owner.tableName}.${_.camelCase(fk.name)}${_.upperFirst(fk.idColumn)}`,
\* or the override without touching the getter: [S, val].
fkColumn(S, override, tableOf, fk) ==
    IF Truthy(override) THEN [S |-> S, val |-> override]
    ELSE LET t == tableNameGet(S, tableOf)
         IN  [S   |-> t.S,
              val |-> t.val \o "." \o foreignKeyOf[fk]]

\* `${owner.tableName}.${owner.idColumn}`, or the override: [S, val].
idRef(S, override, owner) ==
    IF Truthy(override) THEN [S |-> S, val |-> override]
    ELSE LET t == tableNameGet(S, owner)
         IN  [S |-> t.S, val |-> t.val \o "." \o idColumnOf[owner]]

Entry(relation, cls, filter, from, to, through) ==
    [relation |-> relation, modelClass |-> cls, filter |-> OrNull(filter),
     from |-> from, to |-> to, through |-> through]

belongsTo(S, avail, c, model, o) ==
    LET m == getModelClass(avail, model)
    IN  IF ~m.ok THEN Thrown(S)
        ELSE LET name == Or(o.name, camelNameOf[m.cls])
                 jf == fkColumn(S, o.joinFrom, m.cls, c)
                 jt == idRef(jf.S, o.joinTo, c)
             IN  storeMapping(jt.S, c, name,
                     Entry("BelongsToOneRelation", m.cls, o.filter,
                           jf.val, jt.val, Absent),
                     Undef)

hasOne(S, avail, c, model, o) ==
    LET m == getModelClass(avail, model)
    IN  IF ~m.ok THEN Thrown(S)
        ELSE LET name == Or(o.name, camelNameOf[m.cls])
                 jf == fkColumn(S, o.joinFrom, c, m.cls)
                 jt == idRef(jf.S, o.joinTo, m.cls)
             IN  storeMapping(jt.S, c, name,
                     Entry("HasOneRelation", m.cls, o.filter,
                           jf.val, jt.val, Absent),
                     Undef)

hasMany(S, avail, c, model, o) ==
    LET m == getModelClass(avail, model)
    IN  IF ~m.ok THEN Thrown(S)
        ELSE LET name == Or(o.name, pluralNameOf[m.cls])
                 jf == fkColumn(S, o.joinFrom, m.cls, c)
                 jt == idRef(jf.S, o.joinTo, c)
             IN  storeMapping(jt.S, c, name,
                     Entry("HasManyRelation", m.cls, o.filter,
                           jf.val, jt.val, Absent),
                     Undef)

\* Lines 178-188: the through class and the join table: [ok, S, cls, table].
throughTableOf(S, avail, c, target, thr) ==
    IF thr.model.kind # "none"
    THEN LET tc == getModelClass(avail, thr.model)
         IN  IF ~tc.ok THEN [ok |-> FALSE, S |-> S, cls |-> Undef, table |-> Undef]
             ELSE IF Truthy(thr.table)
                  THEN [ok |-> TRUE, S |-> S, cls |-> tc.cls, table |-> thr.table]
                  ELSE LET t == tableNameGet(S, tc.cls)
                       IN  [ok |-> TRUE, S |-> t.S, cls |-> tc.cls, table |-> t.val]
    ELSE [ok |-> TRUE, S |-> S, cls |-> Undef,
          table |-> Or(thr.table,
                       nameOf[c] \o "_" \o nameOf[target])]

\* `${throughTable}.${_.camelCase(fk.name)}${_.upperFirst(fk.idColumn)}`
throughColumn(override, table, fk) ==
    Or(override, table \o "." \o foreignKeyOf[fk])

hasManyThrough(S, avail, c, model, o) ==
    LET m == getModelClass(avail, model)
    IN  IF ~m.ok THEN Thrown(S)
        ELSE LET name == Or(o.name, pluralNameOf[m.cls])
                 jf == idRef(S, o.joinFrom, c)
                 jt == idRef(jf.S, o.joinTo, m.cls)
                 tt == throughTableOf(jt.S, avail, c, m.cls, o.through)
             IN  IF ~tt.ok THEN Thrown(jt.S)
                 ELSE storeMapping(tt.S, c, name,
                         Entry("ManyToManyRelation", m.cls, o.filter,
                               jf.val, jt.val,
                               [from |-> throughColumn(o.through.from, tt.table, c),
                                to |-> throughColumn(o.through.to, tt.table, m.cls),
                                modelClass |-> tt.cls,
                                extra |-> OrNull(o.through.extra),
                                filter |-> OrNull(o.through.filter)]),
                         tt.table)

Kinds == {"belongsTo", "hasOne", "hasMany", "hasManyThrough"}

declare(kind, S, avail, c, model, o) ==
    CASE kind = "belongsTo" -> belongsTo(S, avail, c, model, o)
      [] kind = "hasOne"    -> hasOne(S, avail, c, model, o)
      [] kind = "hasMany"   -> hasMany(S, avail, c, model, o)
      [] OTHER              -> hasManyThrough(S, avail, c, model, o)


----------------------------------------------------------------------------
(* The $relations() hooks the models define, as the declarations each      *)
(* makes in order.  Every model here defines its own; a class that defined *)
(* none would inherit its parent's.  BaseModel defines none (it defines    *)
(* relations(), which the getter does not call), so the getter throws on   *)
(* BaseModel itself, after it has put {} in BaseModel's slot.              *)

Step(kind, model, o) == [kind |-> kind, model |-> model, o |-> o]

NoHook == [defined |-> FALSE, body |-> <<>>]

ownHook(c) ==
    CASE c = "Person" ->
            [defined |-> TRUE,
             body |-> <<Step("hasMany", ClassArg("Pet"), NoOptions),
                        Step("hasManyThrough", ClassArg("PetToy"), NoOptions)>>]
      [] c = "Pet" ->
            [defined |-> TRUE,
             body |-> <<Step("belongsTo", StringArg(PersonSpecifier), NoOptions),
                        Step("hasOne", ClassArg("PetToy"), NoOptions)>>]
      [] c = "PetToy" ->
            [defined |-> TRUE,
             body |-> <<Step("belongsTo", ClassArg("Pet"), NoOptions),
                        Step("belongsTo", StringArg(OwnerSpecifier), NoOptions)>>]
      [] OTHER -> NoHook

RECURSIVE hookOf(_)
hookOf(c) ==
    IF ownHook(c).defined THEN ownHook(c)
    ELSE IF c = Root THEN NoHook
    ELSE hookOf(Parent(c))

\* One declaration of a hook, after the ones before it: nothing when one of
\* those threw.  prev and the result are [ok, S].
hookStep(prev, avail, c, st) ==
    IF ~prev.ok THEN prev
    ELSE LET d == declare(st.kind, prev.S, avail, c, st.model, st.o)
         IN  [ok |-> d.ok, S |-> d.S]

\* The hook's declarations in order, stopping at the first that throws:
\* [ok, S].
runHook(S, avail, c, body) ==
    LET after[i \in 0..Len(body)] ==
            IF i = 0 THEN [ok |-> TRUE, S |-> S]
            ELSE hookStep(after[i - 1], avail, c, body[i])
    IN  after[Len(body)]

ObjIds == <<"o1", "o2", "o3", "o4", "o5", "o6">>
EmptyObject == [n \in {} |-> Undef]

\* static get relationMappings(): [S, val, threw, hook].  obj is the object
\* that {} allocates when the slot the class sees is falsy; hook tells
\* whether this.$relations was called; threw whether the getter threw
\* (this.$relations is not a function, or a declaration threw).
relationMappingsGet(S, avail, c, obj) ==
    LET cur == Lookup(S.rs, c)
    IN  IF Truthy(cur)
        THEN [S |-> S, val |-> cur, threw |-> FALSE, hook |-> FALSE]
        ELSE LET S1 == [S EXCEPT !.rs[c] = obj,
                                 !.hp = [o \in (DOMAIN @) \cup {obj} |->
                                            IF o = obj THEN EmptyObject ELSE @[o]]]
                 h == hookOf(c)
             IN  IF ~h.defined
                 THEN [S |-> S1, val |-> Undef, threw |-> TRUE, hook |-> FALSE]
                 ELSE LET r == runHook(S1, avail, c, h.body)
                      IN  [S |-> r.S,
                           val |-> IF r.ok THEN r.S.rs[c] ELSE Undef,
                           threw |-> ~r.ok, hook |-> TRUE]

\* A setter that loses the assignment.
relationMappingsSetLost(S, c, mappings) == S

\* static set relationMappings(mappings)
relationMappingsSet(S, c, mappings) == [S EXCEPT !.rs[c] = mappings]

----------------------------------------------------------------------------
(* The timestamp hooks, on a record r = [cls, createdAt, updatedAt].       *)
(* t1 and t2 are what the first and the second new Date() read.            *)

beforeInsert(r, ts, dontTouch, t1, t2) ==
    IF timestampsOf(ts, r.cls) /\ ~dontTouch
    THEN [r EXCEPT !.createdAt = t1, !.updatedAt = t2]
    ELSE r

\* An update hook that stamps createdAt as well, as the insert hook does.
beforeUpdateAsInsert(r, ts, dontTouch, t1) ==
    IF timestampsOf(ts, r.cls) /\ ~dontTouch
    THEN [r EXCEPT !.createdAt = t1, !.updatedAt = t1]
    ELSE r

beforeUpdate(r, ts, dontTouch, t1) ==
    IF timestampsOf(ts, r.cls) /\ ~dontTouch
    THEN [r EXCEPT !.updatedAt = t1]
    ELSE r

----------------------------------------------------------------------------
(* The state machine.                                                      *)

Static == [tn |-> tableNameSlot, rs |-> relSlot, hp |-> heap, res |-> resolved]

NoRead == [done |-> FALSE, val |-> Undef, threw |-> FALSE, snap |-> EmptyObject]
NoLastRead == [cls |-> Undef, val |-> Undef, threw |-> FALSE, hook |-> FALSE,
               setTo |-> Never]
NoDecl == [cls |-> Undef, kind |-> Undef, model |-> NoModel, o |-> NoOptions,
           ok |-> FALSE, name |-> Undef, throughTable |-> Undef,
           target |-> Undef]
NoTableRead == [cls |-> Undef, val |-> Undef]
NoHookCall == [op |-> Undef, start |-> 0, end |-> 0, dontTouch |-> FALSE,
               enabled |-> FALSE, before |-> [cls |-> Undef, createdAt |-> 0,
                                               updatedAt |-> 0]]

RelInit ==
    /\ tableNameSlot = [c \in AllClasses |-> NoProperty]
    /\ relSlot = [c \in AllClasses |-> NoProperty]
    /\ heap = [o \in {} |-> EmptyObject]
    /\ nextObj = 1
    /\ available = {PersonModule}
    /\ hookCalls = [c \in AllClasses |-> 0]
    /\ firstRead = [c \in AllClasses |-> NoRead]
    /\ lastRead = NoLastRead
    /\ lastDecl = NoDecl
    /\ explicitSet = [c \in AllClasses |-> Never]
    /\ tableSet = [c \in AllClasses |-> FALSE]
    /\ resolved = [c \in AllClasses |-> Undef]
    /\ lastTable = NoTableRead
    /\ nDecls = 0
    /\ nSets = 0

HookInit ==
    /\ timestamps = [c \in AllClasses |-> IF c = Root THEN "true" ELSE NoProperty]
    /\ now = 1
    /\ rec = [cls |-> "Pet", createdAt |-> 0, updatedAt |-> 0]
    /\ lastHook = NoHookCall

Init == RelInit /\ HookInit

SetStatic(S) ==
    /\ tableNameSlot' = S.tn
    /\ relSlot' = S.rs
    /\ heap' = S.hp
    /\ resolved' = S.res

\* X.tableName
ReadTableName(c) ==
    /\ \E g \in {tableNameGet(Static, c)} :
        /\ SetStatic(g.S)
        /\ lastTable' = [cls |-> c, val |-> g.val]
    /\ UNCHANGED <<nextObj, available, hookCalls, firstRead, lastRead,
                   lastDecl, explicitSet, tableSet, nDecls, nSets>>
    /\ UNCHANGED hookVars

TableOverrides == {Undef, "", "animals"}

\* X.tableName = table
AssignTableName(c, table) ==
    /\ SetStatic(tableNameSet(Static, c, table))
    /\ tableSet' = [tableSet EXCEPT ![c] = TRUE]
    /\ UNCHANGED <<nextObj, available, hookCalls, firstRead, lastRead,
                   lastDecl, explicitSet, lastTable, nDecls, nSets>>
    /\ UNCHANGED hookVars

\* X.relationMappings
ReadRelationMappings(c) ==
    /\ ~Truthy(Lookup(relSlot, c)) => nextObj <= MaxObjs
    /\ \E g \in {relationMappingsGet(Static, available, c, ObjIds[nextObj])} :
        /\ SetStatic(g.S)
        /\ nextObj' = IF Truthy(Lookup(relSlot, c)) THEN nextObj ELSE nextObj + 1
        /\ hookCalls' = [hookCalls EXCEPT ![c] = IF g.hook THEN @ + 1 ELSE @]
        /\ lastRead' = [cls |-> c, val |-> g.val, threw |-> g.threw,
                        hook |-> g.hook, setTo |-> explicitSet[c]]
        /\ firstRead' =
              [firstRead EXCEPT ![c] =
                  IF @.done THEN @
                  ELSE [done |-> TRUE, val |-> g.val, threw |-> g.threw,
                        snap |-> IF g.threw THEN EmptyObject ELSE g.S.hp[g.val]]]
    /\ UNCHANGED <<available, lastDecl, explicitSet, tableSet, lastTable,
                   nDecls, nSets>>
    /\ UNCHANGED hookVars

\* X.relationMappings = mappings, with undefined, null or a new object.
NewObject == "<new object>"
Assigned == {Undef, Null, NewObject}
AssignRelationMappings(c, given) ==
    /\ nSets < MaxSets
    /\ given = NewObject => nextObj <= MaxObjs
    /\ LET v == IF given = NewObject THEN ObjIds[nextObj] ELSE given
           S == relationMappingsSet(Static, c, v)
       IN  /\ SetStatic([S EXCEPT !.hp =
                            IF given # NewObject THEN @
                            ELSE [o \in (DOMAIN @) \cup {v} |->
                                     IF o = v THEN EmptyObject ELSE @[o]]])
           /\ explicitSet' = [explicitSet EXCEPT ![c] = v]
    /\ nextObj' = IF given = NewObject THEN nextObj + 1 ELSE nextObj
    /\ nSets' = nSets + 1
    /\ UNCHANGED <<available, hookCalls, firstRead, lastRead, lastDecl,
                   tableSet, lastTable, nDecls>>
    /\ UNCHANGED hookVars

\* The options a caller passes to a declaration made outside a hook.
Variants(f, vals) == {[NoOptions EXCEPT ![f] = v] : v \in vals}
ThroughVariants(f, vals) == {[NoOptions EXCEPT !.through[f] = v] : v \in vals}

PlainOptions ==
    {NoOptions}
        \cup Variants("name", {"", "kin"})
        \cup Variants("joinFrom", {"", "a.x"})
        \cup Variants("joinTo", {"", "b.y"})
        \cup Variants("filter", {"f"})

ThroughOptions ==
    ThroughVariants("table", {"", "links"})
        \cup ThroughVariants("from", {"", "links.l"})
        \cup ThroughVariants("to", {"", "links.r"})
        \cup ThroughVariants("model", {ClassArg("PetToy"),
                                       StringArg(OwnerSpecifier)})
        \cup {[NoOptions EXCEPT !.through.model = ClassArg("PetToy"),
                                !.through.table = "links"]}

OptionsOf(kind) ==
    IF kind = "hasManyThrough" THEN PlainOptions \cup ThroughOptions
    ELSE PlainOptions

ModelArgs ==
    {ClassArg(c) : c \in Classes}
        \cup {StringArg(PersonSpecifier), StringArg(OwnerSpecifier)}

\* X.belongsTo(model, options) and the like, called directly.
Declare(c, kind, model, o) ==
    /\ nDecls < MaxDecls
    /\ \E d \in {declare(kind, Static, available, c, model, o)} :
           /\ SetStatic(d.S)
           /\ lastDecl' = [cls |-> c, kind |-> kind, model |-> model, o |-> o,
                           ok |-> d.ok, name |-> d.name,
                           throughTable |-> d.throughTable,
                           target |-> getModelClass(available, model).cls]
    /\ nDecls' = nDecls + 1
    /\ UNCHANGED <<nextObj, available, hookCalls, firstRead, lastRead,
                   explicitSet, tableSet, lastTable, nSets>>
    /\ UNCHANGED hookVars

\* A module file appears where require() looks for it.
InstallModule(path) ==
    /\ path \notin available
    /\ available' = available \cup {path}
    /\ UNCHANGED <<tableNameSlot, relSlot, heap, nextObj, hookCalls, firstRead,
                   lastRead, lastDecl, explicitSet, tableSet, resolved,
                   lastTable, nDecls, nSets>>
    /\ UNCHANGED hookVars

\* X.timestamps = true / false / undefined
AssignTimestamps(c, v) ==
    /\ timestamps' = [timestamps EXCEPT ![c] = v]
    /\ UNCHANGED <<now, rec, lastHook>>
    /\ UNCHANGED relVars

\* Time passes.
Tick ==
    /\ now < MaxTime
    /\ now' = now + 1
    /\ UNCHANGED <<timestamps, rec, lastHook>>
    /\ UNCHANGED relVars

\* new X()
NewRecord(c) ==
    /\ rec' = [cls |-> c, createdAt |-> 0, updatedAt |-> 0]
    /\ lastHook' = NoHookCall
    /\ UNCHANGED <<timestamps, now>>
    /\ UNCHANGED relVars

\* record.$beforeInsert(context); the clock may advance by drift between
\* the two new Date() of lines 53 and 54.
BeforeInsert(dontTouch, drift) ==
    /\ now + drift <= MaxTime
    /\ rec' = beforeInsert(rec, timestamps, dontTouch, now, now + drift)
    /\ now' = now + drift
    /\ lastHook' = [op |-> "insert", start |-> now, end |-> now + drift,
                    dontTouch |-> dontTouch,
                    enabled |-> timestampsOf(timestamps, rec.cls),
                    before |-> rec]
    /\ UNCHANGED timestamps
    /\ UNCHANGED relVars

\* record.$beforeUpdate(context)
BeforeUpdate(dontTouch) ==
    /\ rec' = beforeUpdate(rec, timestamps, dontTouch, now)
    /\ lastHook' = [op |-> "update", start |-> now, end |-> now,
                    dontTouch |-> dontTouch,
                    enabled |-> timestampsOf(timestamps, rec.cls),
                    before |-> rec]
    /\ UNCHANGED <<timestamps, now>>
    /\ UNCHANGED relVars

\* Reads and assignments of table names.
TableNext ==
    \/ \E c \in AllClasses : ReadTableName(c)
    \/ \E c \in AllClasses, t \in TableOverrides : AssignTableName(c, t)

\* Reads and assignments of relation mappings, modules appearing, and
\* declarations made outside a hook with no options.
StoreNext ==
    \/ \E c \in AllClasses : ReadRelationMappings(c)
    \/ \E c \in AllClasses, given \in Assigned : AssignRelationMappings(c, given)
    \/ \E c \in AllClasses, kind \in Kinds :
          Declare(c, kind, ClassArg("Person"), NoOptions)
    \/ \E path \in Installable : InstallModule(path)

\* Declarations made outside a hook, with every kind of option, on classes
\* whose relation mappings were read.
DeclNext ==
    \/ \E c \in AllClasses : ReadRelationMappings(c)
    \/ \E c \in AllClasses, kind \in Kinds :
          \E model \in ModelArgs, o \in OptionsOf(kind) :
             Declare(c, kind, model, o)
    \/ \E path \in Installable : InstallModule(path)

\* The timestamp hooks on a record, the clock, and the timestamps switch.
HookNext ==
    \/ \E c \in AllClasses, v \in {"true", "false", Undef} : AssignTimestamps(c, v)
    \/ Tick
    \/ \E c \in AllClasses : NewRecord(c)
    \/ \E dontTouch \in BOOLEAN, drift \in {0, 1} : BeforeInsert(dontTouch, drift)
    \/ \E dontTouch \in BOOLEAN : BeforeUpdate(dontTouch)

Next == TableNext \/ StoreNext \/ DeclNext \/ HookNext

Spec == Init /\ [][Next]_vars
TableSpec == Init /\ [][TableNext]_vars
StoreSpec == Init /\ [][StoreNext]_vars
DeclSpec == Init /\ [][DeclNext]_vars
HookSpec == Init /\ [][HookNext]_vars

----------------------------------------------------------------------------
(* The properties.                                                         *)

\* What X.tableName would return now.
TableNow(c) == Or(Lookup(tableNameSlot, c), nameOf[c])

\* The entry the last direct declaration stored, while it is still there.
StoredEntry == heap[Lookup(relSlot, lastDecl.cls)][lastDecl.name]

Supplied(v) == v # Absent

HasEmptyOverride(o) ==
    \/ o.name = ""
    \/ o.joinFrom = ""
    \/ o.joinTo = ""
    \/ o.through.table = ""
    \/ o.through.from = ""
    \/ o.through.to = ""

\* C1: a descriptor whose relation mappings were never assigned has had its
\* hook run exactly once as soon as its mappings were read (and not before),
\* and every read after the first returns the object the first read returned.
C1_HookRunsOncePerDescriptor ==
    \A c \in Classes :
        explicitSet[c] = Never =>
            /\ hookCalls[c] = (IF firstRead[c].done THEN 1 ELSE 0)
            /\ (lastRead.cls = c /\ ~firstRead[c].threw /\ ~lastRead.threw)
                  => lastRead.val = firstRead[c].val

\* C2: two distinct descriptors whose relation mappings were both read got
\* two different objects, each built by a run of the hook with that
\* descriptor as this.
C2_SlotsAreIndependent ==
    \A c1, c2 \in Classes :
        (/\ c1 # c2
         /\ firstRead[c1].done /\ ~firstRead[c1].threw
         /\ firstRead[c2].done /\ ~firstRead[c2].threw
         /\ explicitSet[c1] = Never /\ explicitSet[c2] = Never)
            => /\ firstRead[c1].val # firstRead[c2].val
               /\ hookCalls[c1] >= 1
               /\ hookCalls[c2] >= 1

\* C3: a read that threw leaves the descriptor's slot unpopulated, and a
\* read of that descriptor that returns afterwards has run the hook again.
C3_FailedReadLeavesSlotEmpty ==
    \A c \in Classes :
        explicitSet[c] = Never =>
            /\ (lastRead.cls = c /\ lastRead.threw) => relSlot[c] = NoProperty
            /\ (firstRead[c].threw /\ lastRead.cls = c /\ ~lastRead.threw)
                  => hookCalls[c] >= 2

\* C4 as claimed: a read made after relation mappings were assigned, with
\* any value, returns the value assigned and does not run the hook.
C4_AnyAssignedValueIsReturned ==
    (lastRead.cls \in Classes /\ lastRead.setTo # Never)
        => /\ ~lastRead.threw
           /\ lastRead.val = lastRead.setTo
           /\ ~lastRead.hook

\* C4 as amended: a read made after relation mappings were assigned an
\* object returns that object and does not run the hook.
C4_AssignedObjectIsReturned ==
    (lastRead.cls # Undef /\ lastRead.setTo # Never /\ Truthy(lastRead.setTo))
        => /\ ~lastRead.threw
           /\ lastRead.val = lastRead.setTo
           /\ ~lastRead.hook

\* A read returned the object assigned to a descriptor whose mappings had
\* been built by its hook before the assignment.
C4_Witness ==
    /\ lastRead.cls # Undef
    /\ lastRead.setTo # Never
    /\ Truthy(lastRead.setTo)
    /\ lastRead.val = lastRead.setTo
    /\ firstRead[lastRead.cls].done
    /\ ~firstRead[lastRead.cls].threw
    /\ firstRead[lastRead.cls].val # lastRead.val
    /\ hookCalls[lastRead.cls] = 1

\* The join columns the claims give for a direct declaration d.
ClaimedFrom(d) ==
    IF Supplied(d.o.joinFrom) THEN d.o.joinFrom
    ELSE CASE d.kind \in {"belongsTo", "hasMany"} ->
                TableNow(d.target) \o "." \o foreignKeyOf[d.cls]
           [] d.kind = "hasOne" ->
                TableNow(d.cls) \o "." \o foreignKeyOf[d.target]
           [] OTHER ->
                TableNow(d.cls) \o "." \o idColumnOf[d.cls]

ClaimedTo(d) ==
    IF Supplied(d.o.joinTo) THEN d.o.joinTo
    ELSE CASE d.kind \in {"belongsTo", "hasMany"} ->
                TableNow(d.cls) \o "." \o idColumnOf[d.cls]
           [] OTHER ->
                TableNow(d.target) \o "." \o idColumnOf[d.target]

ClaimedThroughTable(d) ==
    IF Supplied(d.o.through.table) THEN d.o.through.table
    ELSE IF d.o.through.model.kind # "none"
         THEN TableNow(getModelClass(available, d.o.through.model).cls)
         ELSE nameOf[d.cls] \o "_" \o nameOf[d.target]

JoinAsClaimed(d) ==
    /\ StoredEntry.from = ClaimedFrom(d)
    /\ StoredEntry.to = ClaimedTo(d)

ThroughAsClaimed(d) ==
    /\ d.throughTable = ClaimedThroughTable(d)
    /\ ~Supplied(d.o.through.from)
          => StoredEntry.through.from = d.throughTable \o "." \o foreignKeyOf[d.cls]
    /\ ~Supplied(d.o.through.to)
          => StoredEntry.through.to = d.throughTable \o "." \o foreignKeyOf[d.target]

\* C5: the entry a declaration stored has the explicit joinFrom / joinTo
\* whenever one was passed, and else the convention default of its kind.
C5_JoinIsOverrideOrDefault ==
    (lastDecl.ok /\ lastDecl.cls \in Classes) => JoinAsClaimed(lastDecl)

\* C6: the join table of a hasManyThrough is the through.table passed, else
\* the table of the through.model passed, else owner_target; and the two
\* through columns, when not passed, are the join table's foreign keys to
\* the owner and to the target.
C6_ThroughIsOverrideOrDefault ==
    (lastDecl.ok /\ lastDecl.cls \in Classes /\ lastDecl.kind = "hasManyThrough")
        => ThroughAsClaimed(lastDecl)

\* The same two statements for the declarations that pass no empty string:
\* there the stored join and through columns are the override passed or the
\* convention default.
JoinConventionsForNonEmptyOverrides ==
    (lastDecl.ok /\ ~HasEmptyOverride(lastDecl.o))
        => /\ JoinAsClaimed(lastDecl)
           /\ lastDecl.kind = "hasManyThrough" => ThroughAsClaimed(lastDecl)

\* The spec's three examples: Pet belongsTo Person, Person hasMany Pet,
\* Person hasManyThrough Pet, with no options and table names left alone.
SpecExamples ==
    (/\ lastDecl.ok
     /\ lastDecl.o = NoOptions
     /\ \A c \in AllClasses : tableNameSlot[c] \in {NoProperty, nameOf[c]})
        => /\ (lastDecl.kind = "belongsTo" /\ lastDecl.cls = "Pet"
                 /\ lastDecl.target = "Person")
                => /\ StoredEntry.from = "Person.petId"
                   /\ StoredEntry.to = "Pet.id"
                   /\ lastDecl.name = "person"
           /\ (lastDecl.kind = "hasMany" /\ lastDecl.cls = "Person"
                 /\ lastDecl.target = "Pet")
                => /\ StoredEntry.from = "Pet.personId"
                   /\ StoredEntry.to = "Person.id"
                   /\ lastDecl.name = "pets"
           /\ (lastDecl.kind = "hasManyThrough" /\ lastDecl.cls = "Person"
                 /\ lastDecl.target = "Pet")
                => /\ lastDecl.throughTable = "Person_Pet"
                   /\ StoredEntry.through.from = "Person_Pet.personId"
                   /\ StoredEntry.through.to = "Person_Pet.petId"

\* C7: after $beforeInsert with timestamps enabled and no dontTouch, both
\* fields hold a time read during the call; after $beforeUpdate under the
\* same conditions updatedAt holds the time of the call and createdAt is
\* what it was; with dontTouch, or with timestamps disabled, the record is
\* what it was.
C7_HooksStampUnlessSkipped ==
    lastHook.op # Undef =>
        IF lastHook.enabled /\ ~lastHook.dontTouch
        THEN IF lastHook.op = "insert"
             THEN /\ rec.createdAt \in lastHook.start..lastHook.end
                  /\ rec.updatedAt \in lastHook.start..lastHook.end
                  /\ rec.cls = lastHook.before.cls
             ELSE /\ rec.updatedAt = lastHook.start
                  /\ rec.createdAt = lastHook.before.createdAt
                  /\ rec.cls = lastHook.before.cls
        ELSE rec = lastHook.before

\* An update stamped a record that an insert had stamped at an earlier time.
C7_Witness ==
    /\ lastHook.op = "update"
    /\ lastHook.enabled
    /\ ~lastHook.dontTouch
    /\ rec.createdAt # 0
    /\ rec.updatedAt > rec.createdAt
    /\ lastHook.before.updatedAt < rec.updatedAt

\* C8: a declaration that is passed an empty string as an override throws
\* and stores nothing.
C8_EmptyOverrideIsRejected ==
    (lastDecl.cls \in Classes /\ HasEmptyOverride(lastDecl.o)) => ~lastDecl.ok

\* C9: a read of the table name of a descriptor whose table name was never
\* assigned returns the descriptor's own name, which is also what its first
\* read returned.
C9_TableNameIsOwnName ==
    (lastTable.cls \in Classes /\ ~tableSet[lastTable.cls])
        => /\ lastTable.val = nameOf[lastTable.cls]
           /\ lastTable.val = resolved[lastTable.cls]

\* C10: while no relation mappings are assigned, the object a descriptor's
\* first read returned keeps the names and the entries it had when that read
\* returned.
C10_CachedMappingNeverChanges ==
    (\A c \in AllClasses : explicitSet[c] = Never)
        => \A c \in Classes :
              (firstRead[c].done /\ ~firstRead[c].threw)
                 => heap[firstRead[c].val] = firstRead[c].snap

====
